---- MODULE Spec2Model ----
(***************************************************************************)
(* The plugin manager of cloudbot/plugin.py: plugin load / unload, the     *)
(* hook indexes, and the dispatch pipeline launch() with its sieve stage,  *)
(* single-thread waiting queues, parameter binding and post-hook chain.    *)
(*                                                                         *)
(* Coroutines run on one asyncio loop: a step of the model is the code a   *)
(* coroutine runs between two suspension points (yield from on a pending   *)
(* future: a sieve, the hook body, a post-hook, create_tables).            *)
(***************************************************************************)
EXTENDS Integers, Sequences, FiniteSets, TLC

\* Number of load_plugin / unload_plugin calls made in one behaviour.
MaxLifecycleCalls == 3
\* Number of launch() calls made by the dispatcher in one behaviour.
MaxDispatchCalls == 3
\* Number of launch() calls in one behaviour when every command is a target.
MaxKeyCalls == 2
\* Number of calls in one behaviour that mixes launch() with load_plugin() and
\* unload_plugin().
MaxLiveCalls == 2
\* Number of load_plugin / unload_plugin calls in one behaviour that starts with
\* the plugins loaded.
MaxReloadCalls == 3
\* Number of launch() calls in one behaviour under the event loop's scheduling.
MaxFairCalls == 3
\* Number of load_plugin / unload_plugin calls and of periodic tasks started in
\* one behaviour, beside the task of the plugin loaded at first.
MaxCancelCalls == 3
\* Number of dispatches each periodic loop begins in such a behaviour.
MaxCancelTicks == 1
\* Number of load_all() calls in one behaviour.
MaxLoadAllCalls == 1
\* Number of unload_plugin() calls in one behaviour with a periodic task.
MaxPeriodicCalls == 2
\* Number of dispatches one periodic loop begins in one behaviour.
MaxTicks == 2

-----------------------------------------------------------------------------
(* Python containers *)

EmptyDict == [x \in {} |-> 0]

DictSet(d, k, v) == [x \in (DOMAIN d) \cup {k} |-> IF x = k THEN v ELSE d[x]]

DictDel(d, k) == [x \in (DOMAIN d) \ {k} |-> d[x]]

\* DictAppend that ignores v when the key has a list already
DictAppendFirstWins(d, k, v) == IF k \in DOMAIN d THEN d ELSE [x \in (DOMAIN d) \cup {k} |->
                                   IF x = k THEN <<v>> ELSE d[x]]

\* d[k].append(v) on a defaultdict(list), or the "if k in d ... else d[k] = [v]" idiom
DictAppend(d, k, v) == IF k \in DOMAIN d THEN [d EXCEPT ![k] = Append(@, v)]
                       ELSE DictSet(d, k, <<v>>)

Contains(s, x) == \E i \in 1..Len(s) : s[i] = x

\* list.remove(x): drops the first element equal to x (the caller checks x is there)
ListRemove(s, x) ==
    LET i == CHOOSE n \in 1..Len(s) : s[n] = x /\ \A m \in 1..(n - 1) : s[m] # x
    IN  SubSeq(s, 1, i - 1) \o SubSeq(s, i + 1, Len(s))

RECURSIVE Flatten(_)
Flatten(ss) == IF ss = <<>> THEN <<>> ELSE Head(ss) \o Flatten(Tail(ss))

Range(f) == {f[x] : x \in DOMAIN f}

-----------------------------------------------------------------------------
(* The plugin modules on disk: what find_hooks() finds in each module, in   *)
(* module order.  keys: aliases / triggers / types / regexes / caps / perms *)

\* Hook.threaded: the functions that are no coroutines run on the executor
PlainFunctions == {"on_msg", "on_any", "on_ev", "on_re", "bar", "tick"}

Decl(name, type, priority, keys, single, args) ==
    [function_name |-> name, type |-> type, priority |-> priority, keys |-> keys,
     single_thread |-> single, required_args |-> args,
     threaded |-> name \in PlainFunctions]

Modules ==
    [A |-> << Decl("init",    "on_start",         0, <<>>,              FALSE, {"bot"}),
              Decl("foo",     "command",          0, <<"foo", "f">>,    TRUE,  {"text"}),
              Decl("sv",      "sieve",            5, <<>>,              FALSE, {"bot", "event"}),
              Decl("on_msg",  "irc_raw",          5, <<"PRIVMSG">>,     FALSE, {"conn"}),
              Decl("on_any",  "irc_raw",          5, <<"*", "NOTICE">>, FALSE, {"conn"}),
              Decl("on_ev",   "event",            5, <<"message">>,     FALSE, {"conn"}),
              Decl("on_re",   "regex",            5, <<"re1", "re2">>,  FALSE, {"text"}),
              Decl("on_conn", "on_connect",       5, <<>>,              FALSE, {"conn"}),
              Decl("on_out",  "irc_out",          5, <<>>,              FALSE, {"conn"}),
              Decl("after",   "post_hook",        5, <<>>,              TRUE,  {"bot"}),
              Decl("perm",    "perm_check",       5, <<"admin">>,       FALSE, {"bot"}),
              Decl("cap_av",  "on_cap_available", 5, <<"SASL">>,        FALSE, {"conn"}),
              Decl("cap_ack", "on_cap_ack",       5, <<"sasl">>,        FALSE, {"conn"}),
              Decl("tick",    "periodic",         0, <<>>,              TRUE,  {"bot"}),
              Decl("fini",    "on_stop",          0, <<>>,              FALSE, {"bot"}),
              Decl("fini_db", "on_stop",          0, <<>>,              FALSE, {"bot", "nosuch"}) >>,
     B |-> << Decl("bar",     "command",          0, <<"bar", "f">>,    FALSE, {"text", "nosuch"}),
              Decl("sv",      "sieve",            1, <<>>,              TRUE,  {"bot", "event"}),
              Decl("on_msg",  "irc_raw",          1, <<"PRIVMSG">>,     FALSE, {"conn"}),
              Decl("on_any",  "irc_raw",          1, <<"*">>,           FALSE, {"conn"}),
              Decl("on_ev",   "event",            1, <<"message">>,     FALSE, {"conn"}),
              Decl("on_re",   "regex",            1, <<"re3">>,         FALSE, {"text"}),
              Decl("on_conn2","on_connect",       5, <<>>,              FALSE, {"conn"}),
              Decl("on_conn", "on_connect",       1, <<>>,              FALSE, {"conn"}),
              Decl("on_out",  "irc_out",          1, <<>>,              FALSE, {"conn"}),
              Decl("after",   "post_hook",        1, <<>>,              FALSE, {"bot"}),
              Decl("perm",    "perm_check",       1, <<"admin">>,       FALSE, {"bot"}),
              Decl("cap_av",  "on_cap_available", 1, <<"sasl">>,        FALSE, {"conn"}),
              Decl("cap_ack", "on_cap_ack",       1, <<"sasl">>,        FALSE, {"conn"}),
              Decl("foo",     "command",          0, <<"bfoo">>,        TRUE,  {"text"}) >>]

\* sqlalchemy tables each module declares on the shared metadata
ModuleTables == [A |-> {"a_table"}, B |-> {}]

PluginFiles == DOMAIN Modules

\* the attributes an Event object has (hasattr(event, name))
EventAttrs == {"bot", "conn", "text", "event", "nick", "chan"}

\* str.casefold() on the capability names in use
Casefold(c) == IF c = "SASL" THEN "sasl" ELSE c

\* Path(path).resolve() and str(file_path): a Path object never equals a str
PathOf(p) == <<"Path", p>>
StrOf(x) == IF x[1] = "Path" THEN <<"str", x[2]>> ELSE x

\* title = dotted module name derived from the path
TitleOf(p) == p

-----------------------------------------------------------------------------
(* Hook records.  A hook is <<plugin record, plugin file, position in the   *)
(* module>>; its other fields are those of the declaration it wraps.        *)

NoHook == <<0, "", 0>>

HookPlugin(h) == h[1]
HookDecl(h) == Modules[h[2]][h[3]]
Priority(h) == HookDecl(h).priority
HookType(h) == HookDecl(h).type
HookKeys(h) == HookDecl(h).keys

\* find_hooks: plugin.hooks[type], in module order
PluginHooks(r, p, type) ==
    LET idx == SelectSeq([i \in 1..Len(Modules[p]) |-> i],
                         LAMBDA i : Modules[p][i].type = type)
    IN  [n \in 1..Len(idx) |-> <<r, p, idx[n]>>]

\* RawHook.is_catch_all
IsCatchAll(h) == Contains(HookKeys(h), "*")

\* (key, hook) pairs in the order "for hook in hooks: for key in hook.keys"
KeyPairs(hooks) ==
    Flatten([i \in 1..Len(hooks) |->
                [j \in 1..Len(HookKeys(hooks[i])) |-> <<HookKeys(hooks[i])[j], hooks[i]>>]])

CapPairs(hooks) ==
    LET kp == KeyPairs(hooks) IN [i \in 1..Len(kp) |-> <<Casefold(kp[i][1]), kp[i][2]>>]

-----------------------------------------------------------------------------
(* PluginManager.__init__ *)

NewPluginManager ==
    [plugins              |-> EmptyDict,
     _plugin_name_map     |-> EmptyDict,
     commands             |-> EmptyDict,
     raw_triggers         |-> EmptyDict,
     catch_all_triggers   |-> <<>>,
     event_type_hooks     |-> EmptyDict,
     regex_hooks          |-> <<>>,
     sieves               |-> <<>>,
     cap_hooks            |-> [on_available |-> EmptyDict, on_ack |-> EmptyDict],
     connect_hooks        |-> <<>>,
     out_sieves           |-> <<>>,
     hook_hooks           |-> [post |-> <<>>],
     perm_hooks           |-> EmptyDict,
     _hook_waiting_queues |-> EmptyDict]

-----------------------------------------------------------------------------
(* load_plugin: registration of a plugin's hooks *)

RECURSIVE DictAppendAll(_, _)
DictAppendAll(d, pairs) ==
    IF pairs = <<>> THEN d
    ELSE DictAppendAll(DictAppend(d, Head(pairs)[1], Head(pairs)[2]), Tail(pairs))

\* RegisterAlias without the collision test: the last plugin to register wins
RegisterAliasOverwrites(commands, alias, hook) == DictSet(commands, alias, hook)

\* "if alias in self.commands: warn, ignore  else: self.commands[alias] = command_hook"
RegisterAlias(commands, alias, hook) ==
    IF alias \in DOMAIN commands THEN commands ELSE DictSet(commands, alias, hook)

RECURSIVE RegisterCommands(_, _)
RegisterCommands(commands, pairs) ==
    IF pairs = <<>> THEN commands
    ELSE RegisterCommands(RegisterAlias(commands, Head(pairs)[1], Head(pairs)[2]), Tail(pairs))

\* list.sort(key=...): ascending, stable; keys[i] is the key of s[i]
SortBy(s, keys) ==
    LET rank(i) == 1 + Cardinality({j \in 1..Len(s) :
                        \/ keys[j] < keys[i]
                        \/ keys[j] = keys[i] /\ j < i})
    IN  [n \in 1..Len(s) |-> s[CHOOSE i \in 1..Len(s) : rank(i) = n]]

\* ListSort left out: the lists stay in append order
ListSortOmitted(lst) == lst

\* lst.sort(key=attrgetter("priority"))
ListSort(lst) == SortBy(lst, [i \in 1..Len(lst) |-> Priority(lst[i])])

\* self.regex_hooks.sort(key=lambda x: x[1].priority)
RegexSort(lst) == SortBy(lst, [i \in 1..Len(lst) |-> Priority(lst[i][2])])

SortDict(d) == [k \in DOMAIN d |-> ListSort(d[k])]

\* lines 279-290: the sorts that end a load
SortHooks(m) ==
    [m EXCEPT !.sieves             = ListSort(@),
              !.connect_hooks      = ListSort(@),
              !.regex_hooks        = RegexSort(@),
              !.catch_all_triggers = ListSort(@),
              !.out_sieves         = ListSort(@),
              !.event_type_hooks   = SortDict(@),
              !.raw_triggers       = SortDict(@),
              !.perm_hooks         = SortDict(@),
              !.hook_hooks         = [post |-> ListSort(@.post)]]

\* lines 199-290, for the plugin record r built from plugin file p
RegisterHooks(m, r, p) ==
    LET H(t) == PluginHooks(r, p, t)
        raw == H("irc_raw")
    IN  SortHooks(
        [m EXCEPT !.plugins                = DictSet(@, StrOf(PathOf(p)), r),
                  !._plugin_name_map       = DictSet(@, TitleOf(p), r),
                  !.cap_hooks.on_available = DictAppendAll(@, CapPairs(H("on_cap_available"))),
                  !.cap_hooks.on_ack       = DictAppendAll(@, CapPairs(H("on_cap_ack"))),
                  !.commands               = RegisterCommands(@, KeyPairs(H("command"))),
                  !.catch_all_triggers     = @ \o SelectSeq(raw, IsCatchAll),
                  !.raw_triggers           = DictAppendAll(@,
                                               KeyPairs(SelectSeq(raw, LAMBDA h : ~IsCatchAll(h)))),
                  !.event_type_hooks       = DictAppendAll(@, KeyPairs(H("event"))),
                  !.regex_hooks            = @ \o KeyPairs(H("regex")),
                  !.sieves                 = @ \o H("sieve"),
                  !.connect_hooks          = @ \o H("on_connect"),
                  !.out_sieves             = @ \o H("irc_out"),
                  !.hook_hooks.post        = @ \o H("post_hook"),
                  !.perm_hooks             = DictAppendAll(@, KeyPairs(H("perm_check")))])

-----------------------------------------------------------------------------
(* unload_plugin: removal of a plugin's hooks.  A removal is <<index, key,  *)
(* hook>>; list.remove of an absent element raises and ends the unload.     *)

Tag(kind, pairs) == [i \in 1..Len(pairs) |-> <<kind, pairs[i][1], pairs[i][2]>>]

NoKey(hooks) == [i \in 1..Len(hooks) |-> <<"", hooks[i]>>]

RawRemovals(raw) ==
    Flatten([i \in 1..Len(raw) |->
                IF IsCatchAll(raw[i]) THEN << <<"catch_all", "", raw[i]>> >>
                ELSE Tag("raw", KeyPairs(<<raw[i]>>))])

\* Removals without the sieve loop of lines 365-367
RemovalsSkipSieves(r, p) ==
    LET H(t) == PluginHooks(r, p, t)
    IN  Tag("cap_available", CapPairs(H("on_cap_available")))
        \o Tag("cap_ack", CapPairs(H("on_cap_ack")))
        \o Tag("command", KeyPairs(H("command")))
        \o RawRemovals(H("irc_raw"))
        \o Tag("event", KeyPairs(H("event")))
        \o Tag("regex", KeyPairs(H("regex")))
        \o Tag("connect", NoKey(H("on_connect")))
        \o Tag("out", NoKey(H("irc_out")))
        \o Tag("post", NoKey(H("post_hook")))
        \o Tag("perm", KeyPairs(H("perm_check")))

\* lines 318-381, in the order the code removes
Removals(r, p) ==
    LET H(t) == PluginHooks(r, p, t)
    IN  Tag("cap_available", CapPairs(H("on_cap_available")))
        \o Tag("cap_ack", CapPairs(H("on_cap_ack")))
        \o Tag("command", KeyPairs(H("command")))
        \o RawRemovals(H("irc_raw"))
        \o Tag("event", KeyPairs(H("event")))
        \o Tag("regex", KeyPairs(H("regex")))
        \o Tag("sieve", NoKey(H("sieve")))
        \o Tag("connect", NoKey(H("on_connect")))
        \o Tag("out", NoKey(H("irc_out")))
        \o Tag("post", NoKey(H("post_hook")))
        \o Tag("perm", KeyPairs(H("perm_check")))

\* lst.remove(x)
TryRemove(lst, x) ==
    IF Contains(lst, x) THEN [raised |-> FALSE, lst |-> ListRemove(lst, x)]
    ELSE [raised |-> TRUE, lst |-> lst]

\* d[k].remove(h); if not d[k]: del d[k]      (d a defaultdict(list) when dflt)
DictRemove(d, k, h, dflt, prune) ==
    IF k \notin DOMAIN d
    THEN [raised |-> TRUE, d |-> IF dflt THEN DictSet(d, k, <<>>) ELSE d]
    ELSE LET t == TryRemove(d[k], h)
         IN  [raised |-> t.raised,
              d |-> IF ~t.raised /\ prune /\ t.lst = <<>> THEN DictDel(d, k)
                    ELSE DictSet(d, k, t.lst)]

\* UnregisterAlias without the test of the owner
UnregisterAliasUnguarded(commands, alias, hook) ==
    IF alias \in DOMAIN commands THEN DictDel(commands, alias) ELSE commands

\* UnregisterAlias that leaves every alias mapped
UnregisterAliasKeepsAll(commands, alias, hook) == commands

\* "if alias in self.commands and self.commands[alias] == command_hook: del"
UnregisterAlias(commands, alias, hook) ==
    IF alias \in DOMAIN commands /\ commands[alias] = hook
    THEN DictDel(commands, alias) ELSE commands

ApplyRemoval(m, x) ==
    LET kind == x[1]  k == x[2]  h == x[3]
        lst(f, t) == [raised |-> t.raised, pm |-> [m EXCEPT ![f] = t.lst]]
        dct(f, t) == [raised |-> t.raised, pm |-> [m EXCEPT ![f] = t.d]]
    IN  CASE kind = "cap_available" ->
               LET t == DictRemove(m.cap_hooks.on_available, k, h, TRUE, TRUE)
               IN  [raised |-> t.raised, pm |-> [m EXCEPT !.cap_hooks.on_available = t.d]]
          [] kind = "cap_ack" ->
               LET t == DictRemove(m.cap_hooks.on_ack, k, h, TRUE, TRUE)
               IN  [raised |-> t.raised, pm |-> [m EXCEPT !.cap_hooks.on_ack = t.d]]
          [] kind = "command" ->
               [raised |-> FALSE, pm |-> [m EXCEPT !.commands = UnregisterAlias(@, k, h)]]
          [] kind = "catch_all" -> lst("catch_all_triggers", TryRemove(m.catch_all_triggers, h))
          [] kind = "raw"     -> dct("raw_triggers", DictRemove(m.raw_triggers, k, h, FALSE, TRUE))
          [] kind = "event"   -> dct("event_type_hooks",
                                     DictRemove(m.event_type_hooks, k, h, FALSE, TRUE))
          [] kind = "regex"   -> lst("regex_hooks", TryRemove(m.regex_hooks, <<k, h>>))
          [] kind = "sieve"   -> lst("sieves", TryRemove(m.sieves, h))
          [] kind = "connect" -> lst("connect_hooks", TryRemove(m.connect_hooks, h))
          [] kind = "out"     -> lst("out_sieves", TryRemove(m.out_sieves, h))
          [] kind = "post"    ->
               LET t == TryRemove(m.hook_hooks.post, h)
               IN  [raised |-> t.raised, pm |-> [m EXCEPT !.hook_hooks.post = t.lst]]
          [] kind = "perm"    -> dct("perm_hooks", DictRemove(m.perm_hooks, k, h, TRUE, FALSE))

RECURSIVE ApplyRemovals(_, _)
ApplyRemovals(m, xs) ==
    IF xs = <<>> THEN [raised |-> FALSE, pm |-> m]
    ELSE LET t == ApplyRemoval(m, Head(xs))
         IN  IF t.raised THEN t ELSE ApplyRemovals(t.pm, Tail(xs))

\* lines 318-381
UnregisterHooks(m, r, p) == ApplyRemovals(m, Removals(r, p))

\* unload_plugin and then load_plugin of the file p, as the registry sees them:
\* lines 318-381 and 392, then lines 199-290 for the new record rNew
RoundTrip(m, p, rNew) ==
    LET key == StrOf(PathOf(p))
        u == UnregisterHooks(m, m.plugins[key], p)
    IN  [raised |-> u.raised,
         pm |-> RegisterHooks([u.pm EXCEPT !.plugins = DictDel(@, key)], rNew, p)]

\* every hook some index holds
IndexedHooks(m) ==
    LET lists == {m.catch_all_triggers, m.sieves, m.connect_hooks, m.out_sieves,
                  m.hook_hooks.post}
                 \cup Range(m.raw_triggers) \cup Range(m.event_type_hooks)
                 \cup Range(m.perm_hooks) \cup Range(m.cap_hooks.on_available)
                 \cup Range(m.cap_hooks.on_ack)
    IN  UNION {Range(l) : l \in lists} \cup Range(m.commands)
        \cup {x[2] : x \in Range(m.regex_hooks)}

-----------------------------------------------------------------------------
(* State *)

VARIABLES
    pm,           \* the PluginManager object (its attributes)
    plugin,       \* the Plugin records built so far, by record number
    db_metadata,  \* bot.db_metadata: the registered tables, <<record, table>>
    config,       \* bot.config["plugin_loading"]
    procs,        \* the coroutines: calls of load_plugin, unload_plugin, launch
    gate_order,   \* history: per queue key, the launches in the order they reached the gate
    start_order,  \* history: per queue key, the launches in the order they began executing
    reg_order     \* history: the plugin records in the order their hooks were registered

vars == <<pm, plugin, db_metadata, config, procs, gate_order, start_order, reg_order>>

State == [pm |-> pm, plugin |-> plugin, db_metadata |-> db_metadata, config |-> config,
          procs |-> procs, gate_order |-> gate_order, start_order |-> start_order,
          reg_order |-> reg_order]

Becomes(S) ==
    /\ pm' = S.pm
    /\ plugin' = S.plugin
    /\ db_metadata' = S.db_metadata
    /\ config' = S.config
    /\ procs' = S.procs
    /\ gate_order' = S.gate_order
    /\ start_order' = S.start_order
    /\ reg_order' = S.reg_order

\* One launch() call: where it is suspended, and what it has done so far.
NoFrame ==
    [lpc      |-> "none",    \* in_sieve, waiting, in_hook, in_post, returned
     hook     |-> NoHook,    \* the target hook
     it       |-> 0,         \* position of the list iterator (sieves, post-hooks)
     cur      |-> NoHook,    \* the sieve or post-hook being run
     fut      |-> "none",    \* the future this launch waited on: pending, done, cancelled
     bound    |-> FALSE,     \* _prepare_parameters returned a list
     ok       |-> FALSE,     \* internal_launch's ok
     result   |-> "None",    \* the post event's result
     error    |-> "None",    \* the post event's error
     lret     |-> "none",    \* what launch() returned: True, False
     setup    |-> "none",    \* the event's setup call performed
     teardown |-> "none",    \* the event's teardown call performed
     rejected |-> FALSE,     \* a sieve returned None (or raised)
     sieve_error |-> FALSE,  \* history: the sieve that rejected had raised
     sieved   |-> <<>>,      \* history: the sieves applied to this event, in order
     stopped  |-> FALSE,     \* history: a post-hook before the last returned False
     late     |-> FALSE,     \* history: at the gate, a released waiter had not resumed
     calls    |-> 0,         \* invocations of the target's callable
     raised   |-> FALSE,     \* the callable raised
     posts    |-> <<>>]      \* the post events delivered, [hook, result, error]

IdleProc ==
    [op    |-> "idle",       \* load, unload, dispatch
     pc    |-> "idle",       \* create_tables, on_start, on_stop, launch, done
     path  |-> "",
     rec   |-> 0,            \* the Plugin record being loaded or unloaded
     prev  |-> 0,            \* load: the record the plugin table held at the call
     k     |-> 0,            \* position in plugin.hooks["on_start"] / ["on_stop"]
     import_ok |-> TRUE,     \* load: importlib succeeds
     ret   |-> "none",       \* the call's return: None, True, False, raised
     res   |-> "none",       \* load: skipped, import_failed, start_failed, loaded;
                             \* unload, history: stop_failed, an on_stop launch returned False
     frame |-> NoFrame]

\* a hook's waiting-queue entry: None (running, no queue yet) or an asyncio.Queue
QueueNone == [created |-> FALSE, futures |-> <<>>]

\* the key without the plugin title
HookKeyByName(h) == <<"", HookDecl(h).function_name>>

\* key = (hook.plugin.title, hook.function_name)
HookKey(h) == <<TitleOf(h[2]), HookDecl(h).function_name>>

SingleThread(h) == HookDecl(h).single_thread

HistAppend(d, k, v) == IF k \in DOMAIN d THEN [d EXCEPT ![k] = Append(@, v)]
                       ELSE DictSet(d, k, <<v>>)

-----------------------------------------------------------------------------
(* launch(): the code between suspension points, as functions of the state *)

\* _prepare_parameters: every required argument is an attribute of the event
CanBind(h) == HookDecl(h).required_args \subseteq EventAttrs

SetupOf(h) == IF HookDecl(h).threaded THEN "prepare_threaded" ELSE "prepare"
TeardownOf(h) == IF HookDecl(h).threaded THEN "close_threaded" ELSE "close"

\* _execute_hook -> internal_launch -> _execute_hook_threaded / _execute_hook_sync,
\* up to the suspension in the callable (lines 429-441, 445-458, 470-474)
ExecuteHook(S, i) ==
    LET f == S.procs[i].frame
        h == f.hook
    IN  [S EXCEPT !.procs[i].frame =
                      [f EXCEPT !.lpc = "in_hook",
                                !.setup = SetupOf(h),
                                !.bound = CanBind(h),
                                !.calls = IF CanBind(h) THEN @ + 1 ELSE @],
                  !.start_order = IF SingleThread(h) THEN HistAppend(@, HookKey(h), i) ELSE @]

\* EnterQueue that puts the new future at the head of the queue
EnterQueueAtFront(queues, key, i) ==
    IF key \in DOMAIN queues
    THEN [wait |-> TRUE,
          queues |-> [queues EXCEPT ![key] = [created |-> TRUE, futures |-> <<i>> \o @.futures]]]
    ELSE [wait |-> FALSE, queues |-> DictSet(queues, key, QueueNone)]

\* lines 558-578: the entry to the single-thread section
EnterQueue(queues, key, i) ==
    IF key \in DOMAIN queues
    THEN [wait |-> TRUE,
          queues |-> [queues EXCEPT ![key] = [created |-> TRUE, futures |-> Append(@.futures, i)]]]
    ELSE [wait |-> FALSE, queues |-> DictSet(queues, key, QueueNone)]

Gate(S, i) ==
    LET h == S.procs[i].frame.hook
        e == EnterQueue(S.pm._hook_waiting_queues, HookKey(h), i)
        S1 == [S EXCEPT !.pm._hook_waiting_queues = e.queues,
                        !.gate_order = HistAppend(@, HookKey(h), i),
                        !.procs[i].frame.late =
                            \E j \in DOMAIN S.procs \ {i} :
                                /\ S.procs[j].frame.lpc = "waiting"
                                /\ S.procs[j].frame.fut = "done"
                                /\ HookKey(S.procs[j].frame.hook) = HookKey(h)]
    IN  IF ~SingleThread(h) THEN ExecuteHook(S, i)
        ELSE IF e.wait
             THEN [S1 EXCEPT !.procs[i].frame.lpc = "waiting",
                             !.procs[i].frame.fut = "pending"]
             ELSE ExecuteHook(S1, i)

\* line 552
SieveStageSkipped(h) == HookType(h) \in {"on_start", "on_stop", "periodic"}

\* launch(hook, event), lines 552-554: up to the first suspension
Launch(S, i, h) ==
    LET S1 == [S EXCEPT !.procs[i].frame = [NoFrame EXCEPT !.hook = h]]
    IN  IF ~SieveStageSkipped(h) /\ S.pm.sieves # <<>>
        THEN [S1 EXCEPT !.procs[i].frame.lpc = "in_sieve",
                        !.procs[i].frame.it = 1,
                        !.procs[i].frame.cur = S.pm.sieves[1],
                        !.procs[i].frame.sieved = <<S.pm.sieves[1]>>]
        ELSE Gate(S1, i)

-----------------------------------------------------------------------------
(* load_plugin and unload_plugin between suspension points *)

Finish(S, i, ret, res) ==
    [S EXCEPT !.procs[i].pc = "done", !.procs[i].ret = ret, !.procs[i].res = res,
              !.procs[i].frame = NoFrame]

TablesOf(S, r) == {<<r, t>> : t \in S.plugin[r].tables}

\* lines 199-293: the plugin enters the table, its hooks the indexes, its periodic
\* hooks start as tasks
LoadRegister(S, i) ==
    LET r == S.procs[i].rec
        p == S.procs[i].path
        n == Len(PluginHooks(r, p, "periodic"))
    IN  Finish([S EXCEPT !.pm = RegisterHooks(@, r, p),
                         !.plugin[r].tasks = [t \in 1..n |-> "running"],
                         !.reg_order = Append(@, r)],
               i, "None", "loaded")

\* lines 190-191: the next on_start hook, or the registration
LoadStartLoop(S, i, k) ==
    LET hooks == PluginHooks(S.procs[i].rec, S.procs[i].path, "on_start")
    IN  IF k <= Len(hooks)
        THEN Launch([S EXCEPT !.procs[i].pc = "on_start", !.procs[i].k = k], i, hooks[k])
        ELSE LoadRegister(S, i)

\* LoadAfterStart without the unregister_tables call of line 196
LoadAfterStartKeepsTables(S, i, success) ==
    IF ~success
    THEN Finish(S, i, "None", "start_failed")
    ELSE LoadStartLoop(S, i, S.procs[i].k + 1)

\* lines 192-197
LoadAfterStart(S, i, success) ==
    IF ~success
    THEN Finish([S EXCEPT !.db_metadata = @ \ TablesOf(S, S.procs[i].rec)],
                i, "None", "start_failed")
    ELSE LoadStartLoop(S, i, S.procs[i].k + 1)

\* LoadImport without the try/except of lines 172-178: the import error leaves
\* load_plugin
LoadImportRaises(S, i) ==
    LET p == S.procs[i].path
        r == Len(S.plugin) + 1
        S1 == [S EXCEPT !.plugin = Append(@, [path      |-> p,
                                              file_path |-> StrOf(PathOf(p)),
                                              title     |-> TitleOf(p),
                                              tables    |-> ModuleTables[p],
                                              tasks     |-> <<>>]),
                        !.db_metadata = @ \cup {<<r, t>> : t \in ModuleTables[p]},
                        !.procs[i].rec = r]
    IN  IF ~S.procs[i].import_ok THEN Finish(S, i, "raised", "import_failed")
        ELSE IF ModuleTables[p] # {}
             THEN [S1 EXCEPT !.procs[i].pc = "create_tables"]
             ELSE LoadStartLoop(S1, i, 1)

\* lines 171-187: import, Plugin(...), create_tables
LoadImport(S, i) ==
    LET p == S.procs[i].path
        r == Len(S.plugin) + 1
        S1 == [S EXCEPT !.plugin = Append(@, [path      |-> p,
                                              file_path |-> StrOf(PathOf(p)),
                                              title     |-> TitleOf(p),
                                              tables    |-> ModuleTables[p],
                                              tasks     |-> <<>>]),
                        !.db_metadata = @ \cup {<<r, t>> : t \in ModuleTables[p]},
                        !.procs[i].rec = r]
    IN  IF ~S.procs[i].import_ok THEN Finish(S, i, "None", "import_failed")
        ELSE IF ModuleTables[p] # {}
             THEN [S1 EXCEPT !.procs[i].pc = "create_tables"]
             ELSE LoadStartLoop(S1, i, 1)

\* unload_plugin returns (or raises): to the caller, which is load_plugin at line 169
UnloadReturn(S, i, ret) ==
    IF S.procs[i].op = "load" /\ ret # "raised" THEN LoadImport(S, i)
    ELSE Finish(S, i, ret, S.procs[i].res)

\* lines 388-397
UnloadFinish(S, i) ==
    LET r == S.procs[i].rec
        S1 == [S EXCEPT !.db_metadata = @ \ TablesOf(S, r)]
        present == S.plugin[r].file_path \in DOMAIN S.pm.plugins
    IN  UnloadReturn(IF present
                     THEN [S1 EXCEPT !.pm.plugins = DictDel(@, S.plugin[r].file_path)]
                     ELSE S1,
                     i, IF present THEN "True" ELSE "raised")

\* UnloadStopLoop that lets the failure of an on_stop hook end the unload
UnloadStopLoopAborts(S, i, k) ==
    LET r == S.procs[i].rec
        hooks == PluginHooks(r, S.plugin[r].path, "on_stop")
    IN  IF S.procs[i].res = "stop_failed" THEN Finish(S, i, "raised", "stop_failed")
        ELSE IF k <= Len(hooks)
        THEN Launch([S EXCEPT !.procs[i].pc = "on_stop", !.procs[i].k = k], i, hooks[k])
        ELSE UnloadFinish(S, i)

\* lines 384-386: the next on_stop hook, or the end of the unload
UnloadStopLoop(S, i, k) ==
    LET r == S.procs[i].rec
        hooks == PluginHooks(r, S.plugin[r].path, "on_stop")
    IN  IF k <= Len(hooks)
        THEN Launch([S EXCEPT !.procs[i].pc = "on_stop", !.procs[i].k = k], i, hooks[k])
        ELSE UnloadFinish(S, i)

\* lines 305-381
UnloadPlugin(S, i, path) ==
    LET key == StrOf(path)
        r == S.pm.plugins[key]
        t == UnregisterHooks(S.pm, r, S.plugin[r].path)
        S1 == [S EXCEPT !.procs[i].rec = r,
                        !.plugin[r].tasks = [n \in DOMAIN @ |-> "cancelled"],
                        !.pm = t.pm]
    IN  IF key \notin DOMAIN S.pm.plugins THEN UnloadReturn(S, i, "False")
        ELSE IF t.raised THEN UnloadReturn(S1, i, "raised")
        ELSE UnloadStopLoop(S1, i, 1)

\* PolicySkips that consults the blacklist in whitelist mode too
PolicySkipsBoth(cfg, title) ==
    /\ cfg.plugin_loading
    /\ \/ cfg.use_whitelist /\ title \notin cfg.whitelist
       \/ title \in cfg.blacklist

\* lines 155-165
PolicySkips(cfg, title) ==
    /\ cfg.plugin_loading
    /\ IF cfg.use_whitelist THEN title \notin cfg.whitelist ELSE title \in cfg.blacklist

\* line 168: "if file_path in self.plugins", file_path a Path, the keys str
AlreadyLoaded(plugins, file_path) == file_path \in DOMAIN plugins

\* load_plugin(path), lines 148-169
LoadPlugin(S, i, p, import_ok) ==
    LET key == StrOf(PathOf(p))
        S1 == [S EXCEPT !.procs[i] =
                  [IdleProc EXCEPT !.op = "load", !.path = p, !.import_ok = import_ok,
                                   !.prev = IF key \in DOMAIN S.pm.plugins
                                            THEN S.pm.plugins[key] ELSE 0]]
    IN  IF PolicySkips(S.config, TitleOf(p)) THEN Finish(S1, i, "None", "skipped")
        ELSE IF AlreadyLoaded(S.pm.plugins, PathOf(p)) THEN UnloadPlugin(S1, i, PathOf(p))
        ELSE LoadImport(S1, i)

-----------------------------------------------------------------------------
(* launch(): after the suspensions *)

\* launch() returns to its caller
LaunchReturn(S, i, success) ==
    LET S1 == [S EXCEPT !.procs[i].frame.lpc = "returned",
                        !.procs[i].frame.cur = NoHook,
                        !.procs[i].frame.fut = "none",
                        !.procs[i].frame.lret = IF success THEN "True" ELSE "False"]
        pc == S.procs[i].pc
    IN  CASE pc = "on_start" -> LoadAfterStart(S1, i, success)
          [] pc = "on_stop"  ->
                 UnloadStopLoop([S1 EXCEPT !.procs[i].res =
                                     IF success THEN @ ELSE "stop_failed"],
                                i, S.procs[i].k + 1)
          \* _start_periodic, line 538: asyncio.sleep(interval)
          [] pc = "tick"     -> [S1 EXCEPT !.procs[i].pc = "sleep"]
          [] OTHER -> [S1 EXCEPT !.procs[i].pc = "done",
                                 !.procs[i].ret = IF success THEN "True" ELSE "False"]

\* LeaveQueue that deletes the key as soon as the queue is drained by the hand-over
LeaveQueueDropsKey(queues, key) ==
    IF ~queues[key].created \/ queues[key].futures = <<>>
    THEN [next |-> 0, queues |-> DictDel(queues, key)]
    ELSE [next |-> Head(queues[key].futures),
          queues |-> IF Tail(queues[key].futures) = <<>> THEN DictDel(queues, key)
                     ELSE [queues EXCEPT ![key].futures = Tail(@)]]

\* LeaveQueue that deletes the key only while no queue was created for it
LeaveQueueKeepsKey(queues, key) ==
    IF ~queues[key].created THEN [next |-> 0, queues |-> DictDel(queues, key)]
    ELSE IF queues[key].futures = <<>> THEN [next |-> 0, queues |-> queues]
    ELSE [next |-> Head(queues[key].futures),
          queues |-> [queues EXCEPT ![key].futures = Tail(@)]]

\* LeaveQueue that hands over to the newest waiter
LeaveQueueNewestFirst(queues, key) ==
    IF ~queues[key].created \/ queues[key].futures = <<>>
    THEN [next |-> 0, queues |-> DictDel(queues, key)]
    ELSE LET w == queues[key].futures
         IN  [next |-> w[Len(w)],
              queues |-> [queues EXCEPT ![key].futures = SubSeq(w, 1, Len(w) - 1)]]

\* LeaveQueue that takes the next waiter off the queue without resolving its future
LeaveQueueNoRelease(queues, key) ==
    IF ~queues[key].created \/ queues[key].futures = <<>>
    THEN [next |-> 0, queues |-> DictDel(queues, key)]
    ELSE [next |-> 0,
          queues |-> [queues EXCEPT ![key].futures = Tail(@)]]

\* lines 583-590: the exit from the single-thread section
LeaveQueue(queues, key) ==
    IF ~queues[key].created \/ queues[key].futures = <<>>
    THEN [next |-> 0, queues |-> DictDel(queues, key)]
    ELSE [next |-> Head(queues[key].futures),
          queues |-> [queues EXCEPT ![key].futures = Tail(@)]]

\* lines 583-596
LaunchEnd(S, i) ==
    LET f == S.procs[i].frame
        key == HookKey(f.hook)
        l == LeaveQueue(S.pm._hook_waiting_queues, key)
        S1 == [S EXCEPT !.pm._hook_waiting_queues = l.queues]
        S2 == IF l.next = 0 THEN S1 ELSE [S1 EXCEPT !.procs[l.next].frame.fut = "done"]
        \* line 582 raises KeyError when the key is gone; line 590 raises
        \* InvalidStateError when the future taken off the queue was cancelled
        gone == key \notin DOMAIN S.pm._hook_waiting_queues
        dead == ~gone /\ l.next # 0 /\ S.procs[l.next].frame.fut = "cancelled"
    IN  IF SingleThread(f.hook) /\ (gone \/ dead)
        THEN [(IF dead THEN S1 ELSE S) EXCEPT
                  !.procs[i].pc = "done", !.procs[i].ret = "raised",
                  !.procs[i].frame.lpc = "returned"]
        ELSE LaunchReturn(IF SingleThread(f.hook) THEN S2 ELSE S, i, f.ok)

\* lines 503-504: the next post-hook, or the end of _execute_hook
PostLoop(S, i, n) ==
    LET f == S.procs[i].frame
        post == S.pm.hook_hooks.post
    IN  IF n <= Len(post)
        THEN [S EXCEPT !.procs[i].frame =
                 [f EXCEPT !.lpc = "in_post", !.it = n, !.cur = post[n],
                           !.posts = Append(@, [hook |-> post[n], result |-> f.result,
                                                error |-> f.error])]]
        ELSE LaunchEnd([S EXCEPT !.procs[i].frame.it = 0], i)

\* AfterPostHook with "if success and not res: break" for the test of line 505
AfterPostHookStopsOnNone(S, i, res) ==
    IF res \in {"False", "None"}
    THEN LaunchEnd([S EXCEPT !.procs[i].frame.it = 0,
                             !.procs[i].frame.stopped =
                                 (res = "False" /\ S.procs[i].frame.it < Len(S.pm.hook_hooks.post))], i)
    ELSE PostLoop(S, i, S.procs[i].frame.it + 1)

\* lines 504-506: a post-hook returned res ("raise": it raised)
AfterPostHook(S, i, res) ==
    IF res = "False"
    THEN LaunchEnd([S EXCEPT !.procs[i].frame.it = 0,
                             !.procs[i].frame.stopped =
                                 (S.procs[i].frame.it < Len(S.pm.hook_hooks.post))], i)
    ELSE PostLoop(S, i, S.procs[i].frame.it + 1)

\* Outcome with internal_launch returning (True, out) also from its except branch
OutcomeAlwaysOk(f, out) ==
    IF ~f.bound
    THEN [f EXCEPT !.ok = TRUE, !.result = "None", !.error = "None"]
    ELSE [f EXCEPT !.teardown = TeardownOf(f.hook),
                   !.raised = (out = "raise"),
                   !.ok = TRUE,
                   !.result = IF out # "raise" THEN out ELSE "exception",
                   !.error = "None"]

\* Outcome with a binding failure reported as an error of the hook
OutcomeBindingFails(f, out) ==
    IF ~f.bound
    THEN [f EXCEPT !.ok = FALSE, !.result = "None", !.error = "exception"]
    ELSE [f EXCEPT !.teardown = TeardownOf(f.hook),
                   !.raised = (out = "raise"),
                   !.ok = (out # "raise"),
                   !.result = IF out # "raise" THEN out ELSE "None",
                   !.error = IF out = "raise" THEN "exception" ELSE "None"]

\* lines 436-443 / 453-460: after _prepare_parameters, the callable and the teardown
Outcome(f, out) ==
    IF ~f.bound
    THEN [f EXCEPT !.ok = TRUE, !.result = "None", !.error = "None"]
    ELSE [f EXCEPT !.teardown = TeardownOf(f.hook),
                   !.raised = (out = "raise"),
                   \* internal_launch, lines 475-479, and _execute_hook, lines 492-497
                   !.ok = (out # "raise"),
                   !.result = IF out # "raise" THEN out ELSE "None",
                   !.error = IF out = "raise" THEN "exception" ELSE "None"]

\* the callable returned out ("raise": it raised): lines 441-508
AfterHook(S, i, out) ==
    PostLoop([S EXCEPT !.procs[i].frame = Outcome(@, out)], i, 1)

\* AfterSieve without the "if event is None: return False" of lines 555-556
AfterSieveNoReturn(S, i, res) ==
    LET S1 == IF res # "event" THEN [S EXCEPT !.procs[i].frame.rejected = TRUE] ELSE S
        n == S.procs[i].frame.it + 1
    IN  IF n <= Len(S.pm.sieves)
        THEN [S1 EXCEPT !.procs[i].frame.it = n, !.procs[i].frame.cur = S.pm.sieves[n],
                         !.procs[i].frame.sieved = Append(@, S.pm.sieves[n])]
        ELSE Gate(S1, i)

\* AfterSieve without the try/except of lines 518-525: the sieve's exception leaves
\* launch()
AfterSieveRaises(S, i, res) ==
    LET f == S.procs[i].frame
        n == f.it + 1
    IN  IF res = "raise"
        THEN [S EXCEPT !.procs[i].pc = "done", !.procs[i].ret = "raised",
                       !.procs[i].frame.rejected = TRUE,
                       !.procs[i].frame.sieve_error = TRUE,
                       !.procs[i].frame.lpc = "returned"]
        ELSE IF res # "event"
        THEN LaunchReturn([S EXCEPT !.procs[i].frame.rejected = TRUE], i, FALSE)
        ELSE IF n <= Len(S.pm.sieves)
             THEN [S EXCEPT !.procs[i].frame.it = n, !.procs[i].frame.cur = S.pm.sieves[n],
                            !.procs[i].frame.sieved = Append(@, S.pm.sieves[n])]
             ELSE Gate(S, i)

\* lines 554-556: a sieve returned res ("raise": it raised, _sieve returns None)
AfterSieve(S, i, res) ==
    LET f == S.procs[i].frame
        n == f.it + 1
    IN  IF res # "event"
        THEN LaunchReturn([S EXCEPT !.procs[i].frame.rejected = TRUE,
                                    !.procs[i].frame.sieve_error = (res = "raise")],
                          i, FALSE)
        ELSE IF n <= Len(S.pm.sieves)
             THEN [S EXCEPT !.procs[i].frame.it = n, !.procs[i].frame.cur = S.pm.sieves[n],
                            !.procs[i].frame.sieved = Append(@, S.pm.sieves[n])]
             ELSE Gate(S, i)

-----------------------------------------------------------------------------
(* Actions: a call is made, or a suspended coroutine is resumed *)

\* calls take the coroutine slots in order
CanStart(i) == procs[i].op = "idle" /\ (IF i = 1 THEN TRUE ELSE procs[i - 1].op # "idle")

LoadCall(i, p, import_ok) ==
    /\ CanStart(i)
    /\ Becomes(LoadPlugin(State, i, p, import_ok))

UnloadCall(i, p) ==
    /\ CanStart(i)
    /\ Becomes(UnloadPlugin(
           [State EXCEPT !.procs[i] = [IdleProc EXCEPT !.op = "unload", !.path = p]],
           i, PathOf(p)))

\* create_tables, lines 634-641, has run on the executor
TablesCreated(i) ==
    /\ procs[i].pc = "create_tables"
    /\ Becomes(LoadStartLoop(State, i, 1))

\* the command words of the incoming messages
CommandWords == {"foo", "bar"}

\* the dispatcher resolved a command event to the hook h and launches it
DispatchTargets == {pm.commands[a] : a \in CommandWords \cap DOMAIN pm.commands}

DispatchCall(i, h) ==
    /\ CanStart(i)
    /\ Becomes(Launch(
           [State EXCEPT !.procs[i] = [IdleProc EXCEPT !.op = "dispatch", !.pc = "launch"]],
           i, h))

SieveOutcomes == {"event", "None", "raise"}

SieveReturns(i, res) ==
    /\ procs[i].frame.lpc = "in_sieve"
    /\ Becomes(AfterSieve(State, i, res))

\* task.cancel() was called on the periodic task of coroutine i (line 316) and the
\* task was not resumed since: its next resumption raises CancelledError
CancelPending(i) ==
    /\ procs[i].op = "periodic"
    /\ procs[i].pc # "done"
    /\ plugin[procs[i].rec].tasks[1] = "cancelled"

\* the loop resumes a launch whose future has its result (line 574)
FutureResumes(i) ==
    /\ procs[i].frame.lpc = "waiting"
    /\ procs[i].frame.fut = "done"
    /\ ~CancelPending(i)
    /\ Becomes(ExecuteHook(State, i))

\* what the callable does: it returns a value, or raises.  Without parameters it is
\* not called and _execute_hook_threaded / _sync return None.
HookOutcomes(f) == IF f.bound THEN {"value", "raise"} ELSE {"None"}

HookReturns(i, out) ==
    /\ procs[i].frame.lpc = "in_hook"
    /\ ~CancelPending(i)
    /\ out \in HookOutcomes(procs[i].frame)
    /\ Becomes(AfterHook(State, i, out))

PostOutcomes == {"None", "False", "raise"}

PostHookReturns(i, res) ==
    /\ procs[i].frame.lpc = "in_post"
    /\ ~CancelPending(i)
    /\ Becomes(AfterPostHook(State, i, res))

-----------------------------------------------------------------------------
(* Plugin loading and unloading, from an empty manager *)

Configs ==
    { [plugin_loading |-> FALSE, use_whitelist |-> FALSE, whitelist |-> {}, blacklist |-> {}],
      [plugin_loading |-> TRUE, use_whitelist |-> TRUE, whitelist |-> {"A"}, blacklist |-> {"A"}],
      [plugin_loading |-> TRUE, use_whitelist |-> FALSE, whitelist |-> {}, blacklist |-> {"B"}] }

Init ==
    /\ pm = NewPluginManager
    /\ plugin = <<>>
    /\ db_metadata = {}
    /\ config \in Configs
    /\ procs = [i \in 1..MaxLifecycleCalls |-> IdleProc]
    /\ gate_order = EmptyDict
    /\ start_order = EmptyDict
    /\ reg_order = <<>>

LoadStep == \E i \in DOMAIN procs, p \in PluginFiles, ok \in BOOLEAN : LoadCall(i, p, ok)

UnloadStep == \E i \in DOMAIN procs, p \in PluginFiles : UnloadCall(i, p)

TablesStep == \E i \in DOMAIN procs : TablesCreated(i)

HookStep == \E i \in DOMAIN procs, out \in {"None", "value", "raise"} : HookReturns(i, out)

PostHookStep == \E i \in DOMAIN procs, res \in PostOutcomes : PostHookReturns(i, res)

Next == LoadStep \/ UnloadStep \/ TablesStep \/ HookStep \/ PostHookStep

Spec == Init /\ [][Next]_vars

-----------------------------------------------------------------------------
(* Dispatch, with the plugins A and B loaded in this order *)

LoadedPlugin(p) ==
    [path |-> p, file_path |-> StrOf(PathOf(p)), title |-> TitleOf(p),
     tables |-> ModuleTables[p],
     tasks |-> [t \in 1..Len(PluginHooks(0, p, "periodic")) |-> "running"]]

InitDispatch ==
    /\ pm = RegisterHooks(RegisterHooks(NewPluginManager, 1, "A"), 2, "B")
    /\ plugin = <<LoadedPlugin("A"), LoadedPlugin("B")>>
    /\ db_metadata = {<<1, t>> : t \in ModuleTables["A"]} \cup {<<2, t>> : t \in ModuleTables["B"]}
    /\ config = [plugin_loading |-> FALSE, use_whitelist |-> FALSE, whitelist |-> {},
                 blacklist |-> {}]
    /\ procs = [i \in 1..MaxDispatchCalls |-> IdleProc]
    /\ gate_order = EmptyDict
    /\ start_order = EmptyDict
    /\ reg_order = <<1, 2>>

DispatchStep == \E i \in DOMAIN procs, h \in DispatchTargets : DispatchCall(i, h)

SieveStep == \E i \in DOMAIN procs, res \in SieveOutcomes : SieveReturns(i, res)

ResumeStep == \E i \in DOMAIN procs : FutureResumes(i)

NextDispatch == DispatchStep \/ SieveStep \/ ResumeStep \/ HookStep \/ PostHookStep

SpecDispatch == InitDispatch /\ [][NextDispatch]_vars

\* Launches of the single-instance command of A, the one plugin loaded, under the
\* scheduling of the event loop
InitFair ==
    /\ pm = RegisterHooks(NewPluginManager, 1, "A")
    /\ plugin = <<LoadedPlugin("A")>>
    /\ db_metadata = {<<1, t>> : t \in ModuleTables["A"]}
    /\ config = [plugin_loading |-> FALSE, use_whitelist |-> FALSE, whitelist |-> {},
                 blacklist |-> {}]
    /\ procs = [i \in 1..MaxFairCalls |-> IdleProc]
    /\ gate_order = EmptyDict
    /\ start_order = EmptyDict
    /\ reg_order = <<1>>

\* The event loop runs every callback that is ready, so a launch whose future has
\* its result is resumed; the callable and the post-hooks, once called, return.
\* Nothing makes a sieve return or the dispatcher launch.
DispatchFairness ==
    \A i \in 1..MaxFairCalls :
        /\ WF_vars(FutureResumes(i))
        /\ WF_vars(\E out \in {"None", "value", "raise"} : HookReturns(i, out))
        /\ WF_vars(\E res \in PostOutcomes : PostHookReturns(i, res))

SpecDispatchFair == InitFair /\ [][NextDispatch]_vars /\ DispatchFairness

-----------------------------------------------------------------------------
(* Dispatch of every registered command, A's foo and B's foo included *)

InitKeys ==
    /\ pm = RegisterHooks(RegisterHooks(NewPluginManager, 1, "A"), 2, "B")
    /\ plugin = <<LoadedPlugin("A"), LoadedPlugin("B")>>
    /\ db_metadata = {<<1, t>> : t \in ModuleTables["A"]} \cup {<<2, t>> : t \in ModuleTables["B"]}
    /\ config = [plugin_loading |-> FALSE, use_whitelist |-> FALSE, whitelist |-> {},
                 blacklist |-> {}]
    /\ procs = [i \in 1..MaxKeyCalls |-> IdleProc]
    /\ gate_order = EmptyDict
    /\ start_order = EmptyDict
    /\ reg_order = <<1, 2>>

AnyCommandStep == \E i \in DOMAIN procs, h \in Range(pm.commands) : DispatchCall(i, h)

NextKeys == AnyCommandStep \/ SieveStep \/ ResumeStep \/ HookStep \/ PostHookStep

SpecKeys == InitKeys /\ [][NextKeys]_vars

-----------------------------------------------------------------------------
(* Dispatch while plugins are loaded and unloaded; A and B are loaded at first *)

InitLive ==
    /\ pm = RegisterHooks(RegisterHooks(NewPluginManager, 1, "A"), 2, "B")
    /\ plugin = <<LoadedPlugin("A"), LoadedPlugin("B")>>
    /\ db_metadata = {<<1, t>> : t \in ModuleTables["A"]} \cup {<<2, t>> : t \in ModuleTables["B"]}
    /\ config = [plugin_loading |-> FALSE, use_whitelist |-> FALSE, whitelist |-> {},
                 blacklist |-> {}]
    /\ procs = [i \in 1..MaxLiveCalls |-> IdleProc]
    /\ gate_order = EmptyDict
    /\ start_order = EmptyDict
    /\ reg_order = <<1, 2>>

NextLive ==
    \/ DispatchStep \/ SieveStep \/ ResumeStep \/ HookStep \/ PostHookStep
    \/ LoadStep \/ UnloadStep \/ TablesStep

SpecLive == InitLive /\ [][NextLive]_vars

-----------------------------------------------------------------------------
(* load_plugin and unload_plugin calls on a manager that has A and B loaded *)

InitReload ==
    /\ pm = RegisterHooks(RegisterHooks(NewPluginManager, 1, "A"), 2, "B")
    /\ plugin = <<LoadedPlugin("A"), LoadedPlugin("B")>>
    /\ db_metadata = {<<1, t>> : t \in ModuleTables["A"]} \cup {<<2, t>> : t \in ModuleTables["B"]}
    /\ config = [plugin_loading |-> FALSE, use_whitelist |-> FALSE, whitelist |-> {},
                 blacklist |-> {}]
    /\ procs = [i \in 1..MaxReloadCalls |-> IdleProc]
    /\ gate_order = EmptyDict
    /\ start_order = EmptyDict
    /\ reg_order = <<1, 2>>

NextReload == LoadStep \/ UnloadStep \/ TablesStep \/ HookStep \/ PostHookStep

SpecReload == InitReload /\ [][NextReload]_vars

-----------------------------------------------------------------------------
(* load_all, from an empty manager.  The coroutine of the call in slot i waits *)
(* in gather; its children, one load_plugin per discovered file, take the     *)
(* slots after it, and procs[i].k is their number.                            *)

\* what rglob may yield: the discovered files, in the order of the directory walk
PathLists ==
    {s \in UNION {[1..n -> PluginFiles] : n \in 1..Cardinality(PluginFiles)} :
        \A a, b \in DOMAIN s : a # b => s[a] # s[b]}

Children(S, i) == (i + 1)..(i + S.procs[i].k)

\* lines 126-131: gather wraps a load_plugin coroutine per path in a task
LoadAll(S, i, paths, oks) ==
    [S EXCEPT !.procs = [j \in DOMAIN @ |->
        IF j = i
        THEN [IdleProc EXCEPT !.op = "load_all", !.pc = "gather", !.k = Len(paths)]
        ELSE IF j \in (i + 1)..(i + Len(paths))
             THEN [IdleProc EXCEPT !.op = "load", !.pc = "pending", !.path = paths[j - i],
                                   !.import_ok = oks[j - i]]
             ELSE @[j]]]

LoadAllCall(i, paths, oks) ==
    /\ CanStart(i)
    /\ i + Len(paths) <= Len(procs)
    /\ Becomes(LoadAll(State, i, paths, oks))

\* the loop runs the first step of a task of gather; the tasks start in list order
ChildStarts(i) ==
    /\ procs[i].pc = "pending"
    /\ procs[i - 1].pc # "pending"
    /\ Becomes(LoadPlugin(State, i, procs[i].path, procs[i].import_ok))

\* gather's future: the first exception of a child, or the results once every
\* child is done; load_all returns with it (line 131)
GatherReturns(i) ==
    /\ procs[i].op = "load_all"
    /\ procs[i].pc = "gather"
    /\ LET raised == \E c \in Children(State, i) : procs[c].ret = "raised"
       IN  /\ raised \/ \A c \in Children(State, i) : procs[c].pc = "done"
           /\ Becomes([State EXCEPT !.procs[i].pc = "done",
                                    !.procs[i].ret = IF raised THEN "raised" ELSE "None"])

InitLoadAll ==
    /\ pm = NewPluginManager
    /\ plugin = <<>>
    /\ db_metadata = {}
    /\ config \in Configs
    /\ procs = [i \in 1..(MaxLoadAllCalls * (1 + Cardinality(PluginFiles))) |-> IdleProc]
    /\ gate_order = EmptyDict
    /\ start_order = EmptyDict
    /\ reg_order = <<>>

LoadAllStep ==
    \E i \in DOMAIN procs, paths \in PathLists :
        \E oks \in [DOMAIN paths -> BOOLEAN] : LoadAllCall(i, paths, oks)

ChildStep == \E i \in DOMAIN procs : ChildStarts(i)

GatherStep == \E i \in DOMAIN procs : GatherReturns(i)

NextLoadAll == LoadAllStep \/ ChildStep \/ TablesStep \/ HookStep \/ PostHookStep \/ GatherStep

SpecLoadAll == InitLoadAll /\ [][NextLoadAll]_vars

-----------------------------------------------------------------------------
(* The periodic task of plugin A, with A and B loaded.  The task takes slot 1, *)
(* procs[1].k counts the dispatches its loop has begun; the other slots are    *)
(* for unload_plugin calls.                                                    *)

\* _start_periodic, lines 535-537: the sleep is over, the loop launches the hook
TimerFiresWithin(i, ticks) ==
    /\ procs[i].op = "periodic"
    /\ procs[i].pc = "sleep"
    /\ ~CancelPending(i)
    /\ procs[i].k < ticks
    /\ Becomes(Launch([State EXCEPT !.procs[i].pc = "tick", !.procs[i].k = @ + 1],
                      i, procs[i].frame.hook))

\* the task ends with CancelledError; a future it was waiting on is cancelled with
\* it and stays where it was put
Cancelled(S, i) ==
    [S EXCEPT !.procs[i].pc = "done", !.procs[i].ret = "cancelled",
              !.procs[i].frame.fut = IF @ = "pending" THEN "cancelled" ELSE @,
              !.procs[i].frame.lpc = IF @ = "none" THEN @ ELSE "returned"]

\* The loop resumes the cancelled task with CancelledError at its suspension.  In
\* a sleep (lines 533, 538) or at the future of the queue (line 574) the error
\* ends the task.  In the callable or in a
\* post-hook it passes the "except Exception" of internal_launch (lines 475-477),
\* which catches it where CancelledError is an Exception (Python up to 3.7) and
\* lets it through where it is a BaseException (from 3.8): caught says which.
CancelDelivered(i, caught) ==
    /\ CancelPending(i)
    /\ LET S == [State EXCEPT !.plugin[procs[i].rec].tasks[1] = "cancel_suppressed"]
           lpc == procs[i].frame.lpc
       IN  IF procs[i].pc = "tick" /\ lpc # "waiting" /\ caught
           THEN Becomes(IF lpc = "in_hook" THEN AfterHook(S, i, "raise")
                        ELSE AfterPostHook(S, i, "raise"))
           ELSE Becomes(Cancelled(State, i))

InitPeriodic ==
    /\ pm = RegisterHooks(RegisterHooks(NewPluginManager, 1, "A"), 2, "B")
    /\ plugin = <<LoadedPlugin("A"), LoadedPlugin("B")>>
    /\ db_metadata = {<<1, t>> : t \in ModuleTables["A"]} \cup {<<2, t>> : t \in ModuleTables["B"]}
    /\ config = [plugin_loading |-> FALSE, use_whitelist |-> FALSE, whitelist |-> {},
                 blacklist |-> {}]
    /\ procs = [i \in 1..(1 + MaxPeriodicCalls) |->
                   IF i = 1
                   THEN [IdleProc EXCEPT !.op = "periodic", !.pc = "sleep", !.path = "A",
                                         !.rec = 1,
                                         !.frame.hook = PluginHooks(1, "A", "periodic")[1]]
                   ELSE IdleProc]
    /\ gate_order = EmptyDict
    /\ start_order = EmptyDict
    /\ reg_order = <<1, 2>>

TimerFires(i) == TimerFiresWithin(i, MaxTicks)

TimerStep == \E i \in DOMAIN procs : TimerFires(i)

CancelStep == \E i \in DOMAIN procs, caught \in BOOLEAN : CancelDelivered(i, caught)

NextPeriodic == TimerStep \/ CancelStep \/ UnloadStep \/ HookStep \/ PostHookStep

SpecPeriodic == InitPeriodic /\ [][NextPeriodic]_vars

-----------------------------------------------------------------------------
(* Periodic tasks while plugins are loaded and unloaded; A is loaded at first. *)
(* Slot 1 is the task of A's record, the other slots are for the calls and for *)
(* the tasks of the records loaded later.                                      *)

\* lines 212-215: the task load_plugin created for the periodic hook of record r
\* runs its first step, up to the sleep of line 533
TaskStarts(i, r) ==
    /\ CanStart(i)
    /\ plugin[r].tasks # <<>>
    /\ plugin[r].tasks[1] = "running"
    /\ \A j \in DOMAIN procs : ~(procs[j].op = "periodic" /\ procs[j].rec = r)
    /\ Becomes([State EXCEPT !.procs[i] =
                   [IdleProc EXCEPT !.op = "periodic", !.pc = "sleep",
                                    !.path = plugin[r].path, !.rec = r,
                                    !.frame.hook =
                                        PluginHooks(r, plugin[r].path, "periodic")[1]]])

InitCancel ==
    /\ pm = RegisterHooks(NewPluginManager, 1, "A")
    /\ plugin = <<LoadedPlugin("A")>>
    /\ db_metadata = {<<1, t>> : t \in ModuleTables["A"]}
    /\ config = [plugin_loading |-> FALSE, use_whitelist |-> FALSE, whitelist |-> {},
                 blacklist |-> {}]
    /\ procs = [i \in 1..(1 + MaxCancelCalls) |->
                   IF i = 1
                   THEN [IdleProc EXCEPT !.op = "periodic", !.pc = "sleep", !.path = "A",
                                         !.rec = 1,
                                         !.frame.hook = PluginHooks(1, "A", "periodic")[1]]
                   ELSE IdleProc]
    /\ gate_order = EmptyDict
    /\ start_order = EmptyDict
    /\ reg_order = <<1>>

TaskStep == \E i \in DOMAIN procs, r \in DOMAIN plugin : TaskStarts(i, r)

TaskTimerStep == \E i \in DOMAIN procs : TimerFiresWithin(i, MaxCancelTicks)

\* the calls are made for the file of the plugin that has the periodic hook
PeriodicFiles == {p \in PluginFiles : PluginHooks(0, p, "periodic") # <<>>}

ReloadStep == \E i \in DOMAIN procs, p \in PeriodicFiles : LoadCall(i, p, TRUE)

UnloadTaskStep == \E i \in DOMAIN procs, p \in PeriodicFiles : UnloadCall(i, p)

NextCancel ==
    \/ TaskTimerStep \/ CancelStep \/ ResumeStep \/ TaskStep
    \/ ReloadStep \/ UnloadTaskStep \/ TablesStep \/ HookStep \/ PostHookStep

SpecCancel == InitCancel /\ [][NextCancel]_vars

-----------------------------------------------------------------------------
(* Properties of the dispatch pipeline, checked under SpecDispatch *)

Frame(i) == procs[i].frame

\* the launch is inside _execute_hook: the callable or the post-hooks
InExecution(i) == Frame(i).lpc \in {"in_hook", "in_post"}

SameKey(i, j) ==
    /\ Frame(i).hook # NoHook /\ Frame(j).hook # NoHook
    /\ SingleThread(Frame(i).hook) /\ SingleThread(Frame(j).hook)
    /\ HookKey(Frame(i).hook) = HookKey(Frame(j).hook)

\* C1: of the launches of single-thread hooks with one key (plugin title, function
\* name), at most one is inside the execution stage at any time.
C1_MutualExclusion ==
    \A i, j \in DOMAIN procs :
        (i # j /\ SameKey(i, j)) => ~(InExecution(i) /\ InExecution(j))

\* one launch executes while two others wait in the queue of its key
C1_Witness ==
    \E i, j, k \in DOMAIN procs :
        /\ j # k /\ SameKey(i, j) /\ SameKey(i, k)
        /\ InExecution(i)
        /\ Frame(j).lpc = "waiting" /\ Frame(k).lpc = "waiting"

IsPrefix(s, t) == Len(s) <= Len(t) /\ SubSeq(t, 1, Len(s)) = s

\* C2, as claimed: the launches of a single-thread hook start executing in the
\* order launch() was called (the calls take the slots 1, 2, ... in call order).
C2_CallOrder ==
    \A key \in DOMAIN start_order :
        \A m, n \in 1..Len(start_order[key]) :
            m < n => start_order[key][m] < start_order[key][n]

\* C2, amended: the launches of a single-thread hook start executing in the order
\* they reached the serialization gate, that is, left the sieve stage.
C2_GateOrder ==
    \A key \in DOMAIN start_order :
        key \in DOMAIN gate_order /\ IsPrefix(start_order[key], gate_order[key])

\* the third call reached the gate before the first, both queued behind the second,
\* and the first runs last, released from the queue
C2_Witness ==
    \E key \in DOMAIN start_order :
        /\ start_order[key] = <<2, 3, 1>>
        /\ InExecution(1) /\ Frame(1).fut = "done"

\* C3: a launch in which a sieve returned None has returned False, without a call
\* of the target's callable and without a post-hook.
C3_SieveReject ==
    \A i \in DOMAIN procs :
        Frame(i).rejected =>
            /\ Frame(i).lpc = "returned" /\ Frame(i).lret = "False"
            /\ procs[i].ret = "False"
            /\ Frame(i).calls = 0 /\ Frame(i).setup = "none"
            /\ Frame(i).posts = <<>>

\* the second sieve rejected what the first let pass, with post-hooks registered
C3_Witness ==
    \E i \in DOMAIN procs :
        /\ Frame(i).rejected /\ Frame(i).it = 2
        /\ pm.hook_hooks.post # <<>>

\* C9: when the callable raises, launch() returns False (it does not raise), and
\* each post-hook invoked gets an event with the failure as error and no result.
C9_HandlerFailure ==
    \A i \in DOMAIN procs :
        Frame(i).raised =>
            /\ procs[i].ret # "raised"
            /\ Frame(i).lpc \in {"in_post", "returned"}
            /\ Frame(i).lpc = "returned" => (Frame(i).lret = "False" /\ procs[i].ret = "False")
            /\ \A n \in 1..Len(Frame(i).posts) :
                   Frame(i).posts[n].error = "exception" /\ Frame(i).posts[n].result = "None"

\* the callable raised, both post-hooks were invoked and the launch has returned
C9_Witness ==
    \E i \in DOMAIN procs :
        /\ Frame(i).raised /\ Frame(i).lpc = "returned"
        /\ Len(Frame(i).posts) = 2

Matching(setup) == IF setup = "prepare" THEN "close" ELSE "close_threaded"

\* C10, as claimed: a launch that has returned and performed the event's setup
\* has performed the matching teardown.
C10_ScopedTeardown ==
    \A i \in DOMAIN procs :
        (Frame(i).lpc = "returned" /\ Frame(i).setup # "none")
            => Frame(i).teardown = Matching(Frame(i).setup)

\* C13, as claimed: launch() returns True exactly when the target's callable was
\* invoked and did not raise, and False otherwise.
C13_TrueIffRan ==
    \A i \in DOMAIN procs :
        (procs[i].op = "dispatch" /\ Frame(i).lpc = "returned")
            => (Frame(i).lret = "True" <=> (Frame(i).calls = 1 /\ ~Frame(i).raised))

\* the post-hooks launch i has invoked, in order
Invoked(i) == [n \in 1..Len(Frame(i).posts) |-> Frame(i).posts[n].hook]

OwnKey(h) == <<plugin[HookPlugin(h)].title, HookDecl(h).function_name>>

\* launch j of a single-instance hook is between its arrival at the gate and its return
AtOrPastGate(j) == Frame(j).lpc \in {"waiting", "in_hook", "in_post"}

\* launch j holds the turn: it executes, or it was released and will resume
HoldsTurn(j) == InExecution(j) \/ (Frame(j).lpc = "waiting" /\ Frame(j).fut = "done")

Released(key) ==
    {j \in DOMAIN procs : /\ Frame(j).lpc = "waiting" /\ Frame(j).fut = "done"
                          /\ HookKey(Frame(j).hook) = key}

\* C22: for every key, the launches started in the order they reached the gate; at
\* most one launch is released and not resumed, it is the oldest that has not
\* started, and the key's entry is present meanwhile; the queue holds the launches
\* that reached the gate after it, oldest first.
C22_HandOff ==
    \A key \in DOMAIN gate_order :
        LET g == gate_order[key]
            st == IF key \in DOMAIN start_order THEN start_order[key] ELSE <<>>
            q == IF key \in DOMAIN pm._hook_waiting_queues
                 THEN pm._hook_waiting_queues[key].futures ELSE <<>>
            n == Len(st) + Cardinality(Released(key))
        IN  /\ IsPrefix(st, g)
            /\ Cardinality(Released(key)) <= 1
            /\ Released(key) # {} =>
                   /\ key \in DOMAIN pm._hook_waiting_queues
                   /\ g[Len(st) + 1] \in Released(key)
            /\ n <= Len(g)
            /\ q = SubSeq(g, n + 1, Len(g))

\* a launch reached the gate while a released waiter had not resumed, and is queued
\* behind it
C22_Witness ==
    \E j, m \in DOMAIN procs :
        /\ j # m /\ SameKey(j, m)
        /\ j \in Released(HookKey(Frame(j).hook))
        /\ Frame(m).late /\ Frame(m).lpc = "waiting" /\ Frame(m).fut = "pending"

\* coroutine i is a launch of a single-thread hook
Serial(i) == Frame(i).hook # NoHook /\ SingleThread(Frame(i).hook)

\* the keys of the single-thread hooks that are launched
LaunchedKeys == {HookKey(Frame(i).hook) : i \in {j \in DOMAIN procs : Serial(j)}}

C24_SieveRaise ==
    /\ [](\A i \in DOMAIN procs :
              Frame(i).sieve_error =>
                  /\ Frame(i).lpc = "returned" /\ Frame(i).lret = "False"
                  /\ procs[i].pc = "done" /\ procs[i].ret = "False"
                  /\ Frame(i).calls = 0 /\ Frame(i).posts = <<>>)
    /\ [][\A i \in DOMAIN procs :
              /\ (~Frame(i).sieve_error /\ procs'[i].frame.sieve_error) =>
                     /\ pm' = pm
                     /\ \A j \in DOMAIN procs \ {i} : procs'[j] = procs[j]
              /\ (/\ procs[i].op = "idle" /\ procs'[i].op = "dispatch"
                  /\ \E j \in DOMAIN procs : Frame(j).sieve_error) =>
                     /\ procs'[i].frame.lpc = "in_sieve"
                     /\ procs'[i].frame.cur = pm.sieves[1]]_vars

\* the second sieve raised in the first launch, and a later launch, past that
\* sieve, runs its callable
C24_Witness ==
    \E i, j \in DOMAIN procs :
        /\ i < j
        /\ Frame(i).sieve_error /\ Len(Frame(i).sieved) = 2
        /\ Frame(j).lpc = "in_hook" /\ Frame(j).calls = 1
        /\ Frame(j).sieved = pm.sieves
        /\ Frame(i).sieved[2] = Frame(j).sieved[2]

\* _prepare_parameters returned None in the launch of coroutine i
BindingFailed(i) == Frame(i).setup # "none" /\ ~Frame(i).bound

\* C25: in a launch whose parameters could not be bound the callable is not called
\* and launch() does not raise; the post-hooks are run, first the first of the
\* list, each with a post event that has neither result nor error.
C25_BindingFailure ==
    \A i \in DOMAIN procs :
        (procs[i].op = "dispatch" /\ BindingFailed(i)) =>
            /\ Frame(i).calls = 0 /\ ~Frame(i).raised
            /\ procs[i].ret # "raised"
            /\ \A n \in 1..Len(Frame(i).posts) :
                   Frame(i).posts[n].result = "None" /\ Frame(i).posts[n].error = "None"
            /\ (Frame(i).lpc \in {"in_post", "returned"} /\ pm.hook_hooks.post # <<>>) =>
                   /\ Frame(i).posts # <<>>
                   /\ Frame(i).posts[1].hook = pm.hook_hooks.post[1]

\* the launch of B's command "bar", which asks for a parameter no event has, has
\* returned after both post-hooks
C25_Witness ==
    \E i \in DOMAIN procs :
        /\ procs[i].op = "dispatch" /\ BindingFailed(i)
        /\ ~CanBind(Frame(i).hook)
        /\ Frame(i).lpc = "returned"
        /\ Len(Frame(i).posts) = 2

\* C30: with the callable and the post-hooks returning and every ready coroutine
\* resumed, a launch waiting in the queue of its key comes to enter _execute_hook,
\* and a launch of a single-instance hook that has passed the sieves returns.
C30_SerializerLiveness ==
    \A i \in 1..MaxFairCalls :
        /\ (Frame(i).lpc = "waiting") ~> (Frame(i).setup # "none")
        /\ (Serial(i) /\ Frame(i).lpc \in {"waiting", "in_hook", "in_post"})
               ~> (Frame(i).lpc = "returned" /\ procs[i].ret # "raised")

\* of three launches of the one single-instance command the first has returned,
\* the second, which waited in the queue, was released and is in the callable,
\* and the third waits behind it
C30_Witness ==
    \E i, j, k \in DOMAIN procs :
        /\ SameKey(i, j) /\ SameKey(j, k)
        /\ Frame(i).lpc = "returned" /\ procs[i].ret = "True"
        /\ Frame(j).lpc = "in_hook" /\ Frame(j).fut = "done"
        /\ Frame(k).lpc = "waiting" /\ Frame(k).fut = "pending"

\* C21, as claimed: a sieve or a post-hook flagged single-instance has at most one
\* invocation in flight, whichever launches invoke it.
C21_RoleExclusion ==
    \A i, j \in DOMAIN procs :
        (/\ i # j
         /\ Frame(i).lpc \in {"in_sieve", "in_post"}
         /\ Frame(j).lpc = Frame(i).lpc
         /\ Frame(j).cur = Frame(i).cur)
            => ~SingleThread(Frame(i).cur)

-----------------------------------------------------------------------------
(* Properties of plugin loading and unloading, checked under Spec *)

\* the indexed hooks whose plugin is the record r
HooksOfRecord(m, r) == {h \in IndexedHooks(m) : HookPlugin(h) = r}

\* C4: in the step in which an unload_plugin call returns True, no index is left
\* holding a hook of the plugin record it unloaded, and the record's file path is
\* no key of the plugin table.
C4_UnloadRemovesHooks ==
    [][\A i \in DOMAIN procs :
          (procs'[i].op = "unload" /\ procs'[i].ret = "True" /\ procs[i].ret # "True")
              => /\ HooksOfRecord(pm', procs'[i].rec) = {}
                 /\ plugin'[procs'[i].rec].file_path \notin DOMAIN pm'.plugins]_vars

\* plugin A, which has an on_stop hook, was unloaded while plugin B stays loaded
C4_Witness ==
    \E i \in DOMAIN procs :
        /\ procs[i].op = "unload" /\ procs[i].ret = "True" /\ procs[i].path = "A"
        /\ StrOf(PathOf("B")) \in DOMAIN pm.plugins
        /\ pm.sieves # <<>>

\* C5, as claimed: once a load_plugin call made for a path whose plugin was in
\* the plugin table has registered the plugin, no hook of the record that was in
\* the table before is in an index and that record's periodic tasks are cancelled.
C5_HotReload ==
    \A i \in DOMAIN procs :
        (procs[i].op = "load" /\ procs[i].res = "loaded" /\ procs[i].prev # 0) =>
            /\ HooksOfRecord(pm, procs[i].prev) = {}
            /\ \A t \in DOMAIN plugin[procs[i].prev].tasks :
                   plugin[procs[i].prev].tasks[t] = "cancelled"

\* the record r is the one the plugin table holds under its file path
InTable(r) ==
    /\ plugin[r].file_path \in DOMAIN pm.plugins
    /\ pm.plugins[plugin[r].file_path] = r

\* C29, as claimed: every hook in an index belongs to the record the plugin table
\* holds under the identity of the hook's plugin, and so does every periodic task
\* that has not been cancelled.
C29_NoOrphans ==
    /\ \A h \in IndexedHooks(pm) : InTable(HookPlugin(h))
    /\ \A r \in DOMAIN plugin :
           (\E t \in DOMAIN plugin[r].tasks : plugin[r].tasks[t] = "running") => InTable(r)

\* C6: a plugin one of whose on_start hooks failed is not in the plugin table nor
\* the name map, none of its hooks is in an index, it has no periodic task, and
\* its tables are off the shared metadata; nothing of it is registered while its
\* on_start hooks run.
C6_StartFailureAborts ==
    \A i \in DOMAIN procs :
        (procs[i].op = "load" /\ (procs[i].res = "start_failed" \/ procs[i].pc = "on_start")) =>
            LET r == procs[i].rec IN
            /\ r \notin Range(pm.plugins)
            /\ r \notin Range(pm._plugin_name_map)
            /\ HooksOfRecord(pm, r) = {}
            /\ plugin[r].tasks = <<>>
            /\ procs[i].res = "start_failed" => {x \in db_metadata : x[1] = r} = {}

\* the on_start hook of A, a plugin with a table and a periodic hook, failed
C6_Witness ==
    \E i \in DOMAIN procs :
        /\ procs[i].op = "load" /\ procs[i].res = "start_failed"
        /\ plugin[procs[i].rec].tables # {}
        /\ PluginHooks(procs[i].rec, procs[i].path, "periodic") # <<>>

\* C7: a command alias that is mapped keeps its hook in every step, unless the step
\* is the unregistration done by an unload of the plugin record that hook belongs
\* to; and an alias gets a hook only from the record registering in that step.
C7_AliasOwnership ==
    [][/\ \A a \in DOMAIN pm.commands :
              IF a \in DOMAIN pm'.commands THEN pm'.commands[a] = pm.commands[a]
              ELSE \E i \in DOMAIN procs :
                       /\ procs[i].op = "idle" /\ procs'[i].op = "unload"
                       /\ procs'[i].rec = HookPlugin(pm.commands[a])
       /\ \A a \in DOMAIN pm'.commands \ DOMAIN pm.commands :
              reg_order' = Append(reg_order, HookPlugin(pm'.commands[a]))]_vars

\* A and then B registered the alias "f"; A was unloaded, which removed "f", and
\* B's own alias "bar" stays
C7_Witness ==
    /\ Len(reg_order) = 2
    /\ plugin[reg_order[1]].path = "A" /\ plugin[reg_order[2]].path = "B"
    /\ \E i \in DOMAIN procs : procs[i].op = "unload" /\ procs[i].rec = reg_order[1]
    /\ DOMAIN pm.commands = {"bar", "bfoo"}
    /\ HookPlugin(pm.commands["bar"]) = reg_order[2]

\* position of the record r in the order of registration
RegPos(r) == CHOOSE n \in 1..Len(reg_order) : reg_order[n] = r

\* the hook g was registered before the hook h: by an earlier load, or earlier in
\* the same module
RegisteredBefore(g, h) ==
    \/ RegPos(HookPlugin(g)) < RegPos(HookPlugin(h))
    \/ HookPlugin(g) = HookPlugin(h) /\ g[3] < h[3]

Ordered(lst) ==
    \A m, n \in 1..Len(lst) :
        m < n => \/ Priority(lst[m]) < Priority(lst[n])
                 \/ Priority(lst[m]) = Priority(lst[n]) /\ RegisteredBefore(lst[m], lst[n])

KeyPos(h, k) == CHOOSE n \in 1..Len(HookKeys(h)) : HookKeys(h)[n] = k

\* the (regex, hook) pairs: a hook's own regexes stay in declaration order
OrderedPairs(lst) ==
    \A m, n \in 1..Len(lst) :
        m < n => \/ Priority(lst[m][2]) < Priority(lst[n][2])
                 \/ /\ Priority(lst[m][2]) = Priority(lst[n][2])
                    /\ \/ RegisteredBefore(lst[m][2], lst[n][2])
                       \/ /\ lst[m][2] = lst[n][2]
                          /\ KeyPos(lst[m][2], lst[m][1]) < KeyPos(lst[m][2], lst[n][1])

\* C8: each priority-ordered hook list is in non-decreasing priority, hooks of
\* equal priority in the order they were registered.
C8_PrioritySorted ==
    /\ Ordered(pm.sieves) /\ Ordered(pm.connect_hooks) /\ Ordered(pm.out_sieves)
    /\ Ordered(pm.hook_hooks.post) /\ Ordered(pm.catch_all_triggers)
    /\ OrderedPairs(pm.regex_hooks)
    /\ \A k \in DOMAIN pm.raw_triggers : Ordered(pm.raw_triggers[k])
    /\ \A k \in DOMAIN pm.event_type_hooks : Ordered(pm.event_type_hooks[k])
    /\ \A k \in DOMAIN pm.perm_hooks : Ordered(pm.perm_hooks[k])

\* the priorities along the list never decrease
ByPriority(lst) ==
    \A m, n \in 1..Len(lst) : m < n => Priority(lst[m]) <= Priority(lst[n])

\* C28, as claimed: whatever loads have completed, every index list is in
\* non-decreasing priority, the lists of the capability hooks included.
C28_EveryListSorted ==
    /\ ByPriority(pm.sieves) /\ ByPriority(pm.connect_hooks) /\ ByPriority(pm.out_sieves)
    /\ ByPriority(pm.hook_hooks.post) /\ ByPriority(pm.catch_all_triggers)
    /\ \A k \in DOMAIN pm.raw_triggers : ByPriority(pm.raw_triggers[k])
    /\ \A k \in DOMAIN pm.event_type_hooks : ByPriority(pm.event_type_hooks[k])
    /\ \A k \in DOMAIN pm.perm_hooks : ByPriority(pm.perm_hooks[k])
    /\ \A k \in DOMAIN pm.cap_hooks.on_available : ByPriority(pm.cap_hooks.on_available[k])
    /\ \A k \in DOMAIN pm.cap_hooks.on_ack : ByPriority(pm.cap_hooks.on_ack[k])

\* the connect list holds a hook that the sort moved ahead of one registered
\* earlier, and two hooks of equal priority from different plugins
C8_Witness ==
    \E m, n \in 1..Len(pm.connect_hooks) :
        /\ m < n
        /\ Priority(pm.connect_hooks[m]) < Priority(pm.connect_hooks[n])
        /\ RegisteredBefore(pm.connect_hooks[n], pm.connect_hooks[m])
        /\ \E q \in 1..Len(pm.connect_hooks) :
               /\ n < q
               /\ Priority(pm.connect_hooks[n]) = Priority(pm.connect_hooks[q])
               /\ HookPlugin(pm.connect_hooks[n]) # HookPlugin(pm.connect_hooks[q])

\* the file is loaded: its record is in the table and no unload of it has begun
Loaded(p) ==
    /\ StrOf(PathOf(p)) \in DOMAIN pm.plugins
    /\ \A i \in DOMAIN procs :
           ~(procs[i].op = "unload" /\ procs[i].rec = pm.plugins[StrOf(PathOf(p))])

\* unload_plugin call i is suspended in an on_stop hook of the record it unloads
InOnStop(i) == procs[i].op = "unload" /\ procs[i].pc = "on_stop"

\* C27, as claimed: while unload_plugin is suspended in an on_stop hook, every task of its
\* record has had cancel() called, no index holds a hook of the record, the record's tables
\* are still on the shared metadata and its path is still a key of the plugin
\* table; the tables leave the metadata and the key leaves the table in the one
\* step in which the call returns True, after the on_stop hooks.
C27_UnloadOrder ==
    /\ [](\A i \in DOMAIN procs :
            InOnStop(i) =>
                LET r == procs[i].rec IN
                /\ \A t \in DOMAIN plugin[r].tasks : plugin[r].tasks[t] # "running"
                /\ HooksOfRecord(pm, r) = {}
                /\ {<<r, t>> : t \in plugin[r].tables} \subseteq db_metadata
                /\ plugin[r].file_path \in DOMAIN pm.plugins)
    /\ [][\A i \in DOMAIN procs :
            (InOnStop(i) /\ ~InOnStop(i)') =>
                /\ procs'[i].ret = "True"
                /\ {x \in db_metadata' : x[1] = procs[i].rec} = {}
                /\ plugin[procs[i].rec].file_path \notin DOMAIN pm'.plugins]_vars

C15_UnloadReturn ==
    [][\A i \in DOMAIN procs :
          (procs[i].op = "idle" /\ procs'[i].op = "unload") =>
              IF StrOf(PathOf(procs'[i].path)) \notin DOMAIN pm.plugins
              THEN /\ procs'[i].pc = "done" /\ procs'[i].ret = "False"
                   /\ pm' = pm /\ plugin' = plugin /\ db_metadata' = db_metadata
                   /\ \A j \in DOMAIN procs \ {i} : procs'[j] = procs[j]
              ELSE procs'[i].ret \in {"none", "True"}]_vars

\* C18, as claimed: the raw hooks indexed under one trigger are those of one plugin.
C18_FirstRawWins ==
    \A t \in DOMAIN pm.raw_triggers :
        \A m, n \in 1..Len(pm.raw_triggers[t]) :
            pm.raw_triggers[t][m][2] = pm.raw_triggers[t][n][2]

\* the raw hooks of record r that are no catch-all hooks, with their triggers
RawEntries(r) ==
    LET raw == PluginHooks(r, plugin[r].path, "irc_raw")
    IN  Range(KeyPairs(SelectSeq(raw, LAMBDA h : ~IsCatchAll(h))))

\* C18, amended: every raw hook of every loaded plugin is indexed under each of its
\* triggers, whatever other plugins registered for the trigger.
C18_EveryRawIndexed ==
    \A p \in PluginFiles :
        Loaded(p) => \A e \in RawEntries(pm.plugins[StrOf(PathOf(p))]) :
                         /\ e[1] \in DOMAIN pm.raw_triggers
                         /\ Contains(pm.raw_triggers[e[1]], e[2])

\* PRIVMSG holds the hook of B, loaded second with the lower priority, ahead of A's
C18_Witness ==
    /\ Loaded("A") /\ Loaded("B")
    /\ "PRIVMSG" \in DOMAIN pm.raw_triggers
    /\ Len(pm.raw_triggers["PRIVMSG"]) = 2
    /\ pm.raw_triggers["PRIVMSG"][1][2] = "B"
    /\ RegPos(pm.plugins[StrOf(PathOf("A"))]) < RegPos(pm.plugins[StrOf(PathOf("B"))])

EntriesOf(m, r) ==
    LET listed(kind, key, lst) ==
            {<<kind, key, h[3]>> : h \in {x \in Range(lst) : HookPlugin(x) = r}}
        keyed(kind, d) == UNION {listed(kind, k, d[k]) : k \in DOMAIN d}
    IN  {<<"command", a, m.commands[a][3]>> :
             a \in {x \in DOMAIN m.commands : HookPlugin(m.commands[x]) = r}}
        \cup {<<"regex", x[1], x[2][3]>> :
                  x \in {y \in Range(m.regex_hooks) : HookPlugin(y[2]) = r}}
        \cup keyed("raw", m.raw_triggers) \cup keyed("event", m.event_type_hooks)
        \cup keyed("perm", m.perm_hooks) \cup keyed("on_available", m.cap_hooks.on_available)
        \cup keyed("on_ack", m.cap_hooks.on_ack)
        \cup listed("catch_all", "", m.catch_all_triggers)
        \cup listed("sieve", "", m.sieves) \cup listed("connect", "", m.connect_hooks)
        \cup listed("out", "", m.out_sieves) \cup listed("post", "", m.hook_hooks.post)

Commands(entries) == {e \in entries : e[1] = "command"}

\* C33, as claimed: of two unload_plugin calls that found the same record in the
\* plugin table neither raises, at most one dispatches the record's on_stop hooks,
\* and once both are over exactly one has returned True.
C33_ConcurrentUnloads ==
    \A i, j \in DOMAIN procs :
        (/\ i # j
         /\ procs[i].op = "unload" /\ procs[j].op = "unload"
         /\ procs[i].rec # 0 /\ procs[i].rec = procs[j].rec) =>
            /\ procs[i].ret # "raised" /\ procs[j].ret # "raised"
            /\ ~(procs[i].k >= 1 /\ procs[j].k >= 1)
            /\ (procs[i].pc = "done" /\ procs[j].pc = "done") =>
                   (procs[i].ret = "True") # (procs[j].ret = "True")

\* the aliases the commands of the module in file p declare
DeclaredAliases(p) ==
    UNION {Range(Modules[p][n].keys) :
               n \in {k \in 1..Len(Modules[p]) : Modules[p][k].type = "command"}}

\* C32: the step in which unload_plugin takes a record's hooks out of the indexes
\* unmaps every alias that maps to a hook of the record and maps it to no other
\* hook, whichever loaded plugins declare it, and leaves every other alias as it
\* is; an alias that is unmapped becomes mapped only in the step in which a load
\* registers a record whose module declares it, and then to a hook of that record.
C32_NoPromotion ==
    [][/\ \A i \in DOMAIN procs :
              (procs[i].op = "idle" /\ procs'[i].op = "unload" /\ procs'[i].ret # "raised") =>
                  \A a \in DOMAIN pm.commands :
                      IF HookPlugin(pm.commands[a]) = procs'[i].rec
                      THEN a \notin DOMAIN pm'.commands
                      ELSE a \in DOMAIN pm'.commands /\ pm'.commands[a] = pm.commands[a]
       /\ \A a \in DOMAIN pm'.commands \ DOMAIN pm.commands :
              LET r == HookPlugin(pm'.commands[a])
              IN  /\ reg_order' = Append(reg_order, r)
                  /\ a \in DeclaredAliases(plugin'[r].path)]_vars

\* A, loaded first, held the alias "f" that B declares too; A was unloaded and B is
\* still loaded with its own aliases: "f" is mapped to no hook
C32_Witness ==
    /\ Loaded("B") /\ ~Loaded("A")
    /\ "f" \in DeclaredAliases("A") \cap DeclaredAliases("B")
    /\ "f" \notin DOMAIN pm.commands
    /\ \A a \in DeclaredAliases("B") \ {"f"} :
           a \in DOMAIN pm.commands
               /\ HookPlugin(pm.commands[a]) = pm.plugins[StrOf(PathOf("B"))]
    /\ \E i \in DOMAIN procs :
           procs[i].op = "unload" /\ procs[i].path = "A" /\ procs[i].ret = "True"

\* C17, as claimed: unloading a loaded plugin and loading the same path again leaves
\* the path in the plugin table and the plugin with the same set of index entries.
C17_RoundTripSame ==
    \A p \in PluginFiles :
        Loaded(p) =>
            LET rt == RoundTrip(pm, p, Len(plugin) + 1)
            IN  ~rt.raised =>
                    /\ StrOf(PathOf(p)) \in DOMAIN rt.pm.plugins
                    /\ EntriesOf(rt.pm, Len(plugin) + 1)
                           = EntriesOf(pm, pm.plugins[StrOf(PathOf(p))])

\* C17, amended: the round trip keeps the path in the plugin table, keeps every
\* index entry of the plugin, and adds only command aliases of the plugin that no
\* plugin held before the round trip.
C17_RoundTripEntries ==
    \A p \in PluginFiles :
        Loaded(p) =>
            LET rt == RoundTrip(pm, p, Len(plugin) + 1)
                before == EntriesOf(pm, pm.plugins[StrOf(PathOf(p))])
                after == EntriesOf(rt.pm, Len(plugin) + 1)
            IN  ~rt.raised =>
                    /\ StrOf(PathOf(p)) \in DOMAIN rt.pm.plugins
                    /\ rt.pm.plugins[StrOf(PathOf(p))] = Len(plugin) + 1
                    /\ before \subseteq after
                    /\ after \ before \subseteq Commands(after)
                    /\ \A e \in after \ before : e[2] \notin DOMAIN pm.commands

\* B is loaded without the alias "f", which no plugin holds any more: the round trip
\* of B gains it
C17_Witness ==
    /\ Loaded("B")
    /\ "f" \notin DOMAIN pm.commands
    /\ LET rt == RoundTrip(pm, "B", Len(plugin) + 1)
       IN  /\ ~rt.raised
           /\ "f" \in DOMAIN rt.pm.commands
           /\ HookPlugin(rt.pm.commands["f"]) = Len(plugin) + 1
           /\ EntriesOf(pm, pm.plugins[StrOf(PathOf("B"))]) # {}

-----------------------------------------------------------------------------
(* Properties of a dispatch that runs while the registry is edited, checked under
   SpecLive *)

\* the plugin records loaded before any dispatch began
InitialRecords == {1, 2}

\* the launch of coroutine i has left the sieve stage with no sieve rejecting
PassedSieves(i) ==
    /\ procs[i].op = "dispatch"
    /\ procs[i].frame.lpc \notin {"none", "in_sieve"}
    /\ ~procs[i].frame.rejected

\* C12, as claimed: a dispatch applies the sieves one after another in ascending
\* priority, each at most once, and once it is through it has applied every sieve
\* that was registered all the time, whatever loads and unloads completed while
\* it was suspended in a sieve.
C12_SievesOnceInOrder ==
    \A i \in DOMAIN procs :
        procs[i].op = "dispatch" =>
            LET sv == procs[i].frame.sieved
            IN  /\ \A m, n \in 1..Len(sv) :
                       m < n => sv[m] # sv[n] /\ Priority(sv[m]) <= Priority(sv[n])
                /\ PassedSieves(i) =>
                       \A h \in Range(pm.sieves) :
                           HookPlugin(h) \in InitialRecords => Contains(sv, h)

\* the launch of coroutine i applied no sieve and no sieve rejected it
NoSieveApplied(i) == Frame(i).sieved = <<>> /\ ~Frame(i).rejected

\* the launch of coroutine i has entered _execute_hook for its target hook after
\* applying every sieve of the list that was registered from the start
EverySieveApplied(i) ==
    (Frame(i).lpc \in {"in_hook", "in_post", "returned"} /\ ~Frame(i).rejected) =>
        \A h \in Range(pm.sieves) :
            HookPlugin(h) \in InitialRecords => Contains(Frame(i).sieved, h)

\* C26, as claimed: a launch of an on_start, on_stop or periodic hook applies no
\* sieve and is never rejected; a launch of a hook of any other kind reaches the
\* target hook only after every registered sieve has been applied.
C26_SieveStage ==
    \A i \in DOMAIN procs :
        Frame(i).hook # NoHook =>
            IF HookType(Frame(i).hook) \in {"on_start", "on_stop", "periodic"}
            THEN NoSieveApplied(i)
            ELSE EverySieveApplied(i)

-----------------------------------------------------------------------------
(* Properties of load_all, checked under SpecLoadAll *)

\* the hook types load_plugin enters in an index
IndexedTypes ==
    {"command", "irc_raw", "event", "regex", "sieve", "on_connect", "irc_out", "post_hook",
     "perm_check", "on_cap_available", "on_cap_ack"}

\* every hook of the record r, built from the file p, is indexed: the aliases of
\* its commands are mapped, the other hooks are in their lists
AllIndexed(r, p) ==
    \A n \in 1..Len(Modules[p]) :
        Modules[p][n].type \in IndexedTypes =>
            IF Modules[p][n].type = "command"
            THEN \A a \in Range(Modules[p][n].keys) : a \in DOMAIN pm.commands
            ELSE <<r, p, n>> \in IndexedHooks(pm)

\* the load of child c is eligible: the policy admits it, its import succeeds and
\* its on_start hooks succeed
Eligible(c) ==
    /\ ~PolicySkips(config, TitleOf(procs[c].path))
    /\ procs[c].import_ok
    /\ procs[c].res # "start_failed"

\* C14: when a load_all call has returned, it returned normally, and every file
\* it discovered whose load was eligible is in the plugin table with its hooks
\* indexed, whichever other files failed to import or to start.
C14_LoadAllIsolates ==
    \A i \in DOMAIN procs :
        (procs[i].op = "load_all" /\ procs[i].pc = "done") =>
            /\ procs[i].ret = "None"
            /\ \A c \in Children(State, i) :
                   Eligible(c) =>
                       /\ procs[c].res = "loaded"
                       /\ StrOf(PathOf(procs[c].path)) \in DOMAIN pm.plugins
                       /\ AllIndexed(procs[c].rec, procs[c].path)

\* a load_all has returned; a child that started first failed in its import or in
\* its on_start hook, and a later child is loaded
C14_Witness ==
    \E i \in DOMAIN procs :
        /\ procs[i].op = "load_all" /\ procs[i].pc = "done"
        /\ \E c, d \in Children(State, i) :
               /\ c < d
               /\ procs[c].res \in {"import_failed", "start_failed"}
               /\ procs[d].res = "loaded"
               /\ AllIndexed(procs[d].rec, procs[d].path)

-----------------------------------------------------------------------------
(* Properties of the periodic tasks, checked under SpecPeriodic *)

\* C11, as claimed: once unload_plugin has cancelled the periodic task of a
\* plugin, the loop of the task begins no dispatch of its hook.
C11_NoDispatchAfterCancel ==
    [][\A i \in DOMAIN procs :
          (/\ procs[i].op = "periodic"
           /\ plugin[procs[i].rec].tasks[1] \in {"cancelled", "cancel_suppressed"})
              => ~(procs[i].pc = "sleep" /\ procs'[i].pc = "tick")]_vars

-----------------------------------------------------------------------------
(* Properties of cancelled dispatches, checked under SpecCancel *)

\* the coroutine i is in a launch under the key and holds the turn or waits for it
InFlight(i, key) ==
    /\ procs[i].pc # "done"
    /\ Serial(i) /\ HookKey(Frame(i).hook) = key
    /\ AtOrPastGate(i)

\* C31, as claimed: whatever unload cancelled, a key of the serializer has an
\* invocation in flight that holds the turn, no launch of a periodic hook fails
\* on leaving the serializer, and a launch waits only behind one that holds the
\* turn.
C31_NoSlotLeak ==
    /\ \A key \in DOMAIN pm._hook_waiting_queues :
           \E i \in DOMAIN procs : InFlight(i, key) /\ HoldsTurn(i)
    /\ \A i \in DOMAIN procs : procs[i].op = "periodic" => procs[i].ret # "raised"
    /\ \A i \in DOMAIN procs :
           (procs[i].pc # "done" /\ Frame(i).lpc = "waiting" /\ Frame(i).fut = "pending") =>
               \E j \in DOMAIN procs \ {i} :
                   InFlight(j, HookKey(Frame(i).hook)) /\ HoldsTurn(j)

====
